---- MODULE Spec2Model ----
(***************************************************************************)
(* Retraining decision of rasa/model.py: the fingerprint comparator        *)
(* (did_section_fingerprint_change), the lookup of the artifact            *)
(* directories of an unpacked model (get_model_subdirectories) and the     *)
(* decision procedure should_retrain with its best-effort directory moves. *)
(* RegexFeaturizer of rasa/nlu/featurizers/sparse_featurizer/              *)
(* regex_featurizer.py: train, process, persist and load over the list     *)
(* known_patterns, and the per-message feature computation.                *)
(***************************************************************************)
EXTENDS Integers, Sequences, FiniteSets, TLC

VARIABLES
    pc,                     \* position of the running call
    old_model,              \* TRUE iff old_model is a path that exists
    new_fingerprint,        \* argument of should_retrain / fingerprint2
    last_fingerprint,       \* fingerprint.json of the old model / fingerprint1
    core_dir,               \* the unpacked old model has a core/ directory
    nlu_dirs,               \* languages with an nlu-<lang>/ directory in it
    unpacked,               \* unpack_model has been called
    model_outdated,         \* local of should_retrain
    fingerprint_comparison, \* the FingerprintComparisonResult being built
    core_merge_failed,      \* local of should_retrain
    languages_to_train,     \* local of should_retrain
    todo,                   \* keys of old_nlu the loop has not visited yet
    moves,                  \* the move_model calls made so far
    exc,                    \* exception that left the call, or NoExc
    section,                \* section handed to did_section_fingerprint_change
    changed,                \* what did_section_fingerprint_change returned
    heap,                   \* the Python list objects, by reference
    known_patterns,         \* known_patterns of each RegexFeaturizer: a reference
    return_sequence,        \* return_sequence of each RegexFeaturizer
    training_data,          \* the TrainingData handed to train
    declared,               \* regex features the training data declared
    trains,                 \* train calls made so far
    files,                  \* files of model_dir, by name
    meta,                   \* the component's metadata: what persist returned
    at_persist,             \* known_patterns when persist wrote the file
    message,                \* the message last processed
    rexc                    \* exception that left a featurizer call, or NoExc

\* the variables of the retraining decision
mvars == <<pc, old_model, new_fingerprint, last_fingerprint, core_dir,
           nlu_dirs, unpacked, model_outdated, fingerprint_comparison,
           core_merge_failed, languages_to_train, todo, moves, exc, section,
           changed>>

\* the variables of the RegexFeaturizer
rvars == <<heap, known_patterns, return_sequence, training_data, declared,
           trains, files, meta, at_persist, message, rexc>>

vars == <<mvars, rvars>>

----------------------------------------------------------------------------
(* Bounds of the model *)

\* version strings are modelled by their order: 1 .. MaxVersion
MaxVersion == 3
Versions == 1..MaxVersion

\* language codes and hash values that occur in the fingerprints
Langs == {"en", "fr"}
Hashes == {"h1", "h2"}

\* rasa.constants.MINIMUM_COMPATIBLE_VERSION, in the order of Versions
MINIMUM_COMPATIBLE_VERSION == 2

----------------------------------------------------------------------------
(* Fingerprints *)

FINGERPRINT_CONFIG_KEY == "config"
FINGERPRINT_CONFIG_CORE_KEY == "core-config"
FINGERPRINT_CONFIG_NLU_KEY == "nlu-config"
FINGERPRINT_DOMAIN_WITHOUT_NLG_KEY == "domain"
FINGERPRINT_NLG_KEY == "nlg"
FINGERPRINT_RASA_VERSION_KEY == "version"
FINGERPRINT_STORIES_KEY == "stories"
FINGERPRINT_NLU_DATA_KEY == "messages"

\* Python's None, as the value dict.get gives for an absent key
None == "None"

\* class Section: a name and the list of its relevant keys
SECTION_CORE ==
    [name |-> "Core model",
     relevant_keys |-> <<FINGERPRINT_CONFIG_KEY, FINGERPRINT_CONFIG_CORE_KEY,
                         FINGERPRINT_DOMAIN_WITHOUT_NLG_KEY,
                         FINGERPRINT_STORIES_KEY,
                         FINGERPRINT_RASA_VERSION_KEY>>]
SECTION_NLU ==
    [name |-> "NLU model",
     relevant_keys |-> <<FINGERPRINT_CONFIG_KEY, FINGERPRINT_CONFIG_NLU_KEY,
                         FINGERPRINT_NLU_DATA_KEY,
                         FINGERPRINT_RASA_VERSION_KEY>>]
SECTION_NLG ==
    [name |-> "NLG templates", relevant_keys |-> <<FINGERPRINT_NLG_KEY>>]

Sections == {SECTION_CORE, SECTION_NLU, SECTION_NLG}

\* the keys whose value model_fingerprint builds as a dict keyed by language
DictKeys == {FINGERPRINT_CONFIG_NLU_KEY, FINGERPRINT_NLU_DATA_KEY}

\* the fingerprint model_fingerprint returns (the keys project and
\* trained_at belong to no section and are left out)
Fingerprint(config, core_config, nlu_config, domain, nlg, messages, stories, version) ==
    [k \in {FINGERPRINT_CONFIG_KEY, FINGERPRINT_CONFIG_CORE_KEY,
            FINGERPRINT_CONFIG_NLU_KEY, FINGERPRINT_DOMAIN_WITHOUT_NLG_KEY,
            FINGERPRINT_NLG_KEY, FINGERPRINT_NLU_DATA_KEY,
            FINGERPRINT_STORIES_KEY, FINGERPRINT_RASA_VERSION_KEY} |->
        CASE k = FINGERPRINT_CONFIG_KEY -> config
          [] k = FINGERPRINT_CONFIG_CORE_KEY -> core_config
          [] k = FINGERPRINT_CONFIG_NLU_KEY -> nlu_config
          [] k = FINGERPRINT_DOMAIN_WITHOUT_NLG_KEY -> domain
          [] k = FINGERPRINT_NLG_KEY -> nlg
          [] k = FINGERPRINT_NLU_DATA_KEY -> messages
          [] k = FINGERPRINT_STORIES_KEY -> stories
          [] OTHER -> version]

\* fingerprint_from_path when there is no fingerprint.json: the empty dict
EmptyFingerprint == [k \in {} |-> None]

\* dict.get(key) and dict.keys()
Get(d, k) == IF k \in DOMAIN d THEN d[k] ELSE None
Keys(d) == DOMAIN d

\* isinstance(fingerprint.get(k), dict)
IsDict(fingerprint, k) == k \in DOMAIN fingerprint /\ k \in DictKeys

----------------------------------------------------------------------------
(* did_section_fingerprint_change *)

\* the languages of one fingerprint: keys of messages and of nlu-config
LanguagesIn(fingerprint) ==
    Keys(Get(fingerprint, FINGERPRINT_NLU_DATA_KEY))
        \cup Keys(Get(fingerprint, FINGERPRINT_CONFIG_NLU_KEY))

\* LanguagesDiffering with the whole dicts compared instead of the values of
\* one language: every language of the key is marked
LanguagesDiffering_WholeKey(fingerprint1, fingerprint2, k) ==
    Keys(Get(fingerprint1, k))

\* the inner loop over the languages of a dict-valued key of fingerprint1
LanguagesDiffering(fingerprint1, fingerprint2, k) ==
    {lang \in Keys(Get(fingerprint1, k)) :
        Get(Get(fingerprint1, k), lang) # Get(Get(fingerprint2, k), lang)}

\* the loop over section.relevant_keys of the NLU branch; returned tells
\* whether the loop left the function with all_languages
RECURSIVE NluKeyLoop(_, _, _, _)
NluKeyLoop(fingerprint1, fingerprint2, ks, languages_to_retrain) ==
    IF ks = <<>>
    THEN [returned |-> FALSE, langs |-> languages_to_retrain]
    ELSE LET k == Head(ks) IN
         IF ~IsDict(fingerprint1, k)
         THEN IF Get(fingerprint1, k) # Get(fingerprint2, k)
              THEN [returned |-> TRUE, langs |-> {}]
              ELSE NluKeyLoop(fingerprint1, fingerprint2, Tail(ks),
                              languages_to_retrain)
         ELSE NluKeyLoop(fingerprint1, fingerprint2, Tail(ks),
                         languages_to_retrain
                            \cup LanguagesDiffering(fingerprint1,
                                                    fingerprint2, k))

\* NluSectionChange without the loop over languages_added
NluSectionChange_NoAdded(fingerprint1, fingerprint2, relevant_keys) ==
    LET all_languages ==
            LanguagesIn(fingerprint1) \cup LanguagesIn(fingerprint2)
        languages_removed ==
            LanguagesIn(fingerprint1) \ LanguagesIn(fingerprint2)
        loop == NluKeyLoop(fingerprint1, fingerprint2, relevant_keys, {})
    IN  IF loop.returned
        THEN all_languages
        ELSE loop.langs \ languages_removed

\* the NLU branch: the set of languages of the returned list (list(set):
\* no duplicates, order unspecified)
NluSectionChange(fingerprint1, fingerprint2, relevant_keys) ==
    LET all_languages ==
            LanguagesIn(fingerprint1) \cup LanguagesIn(fingerprint2)
        languages_in_new_model == LanguagesIn(fingerprint2)
        languages_in_old_model == LanguagesIn(fingerprint1)
        languages_added == languages_in_new_model \ languages_in_old_model
        languages_removed == languages_in_old_model \ languages_in_new_model
        loop == NluKeyLoop(fingerprint1, fingerprint2, relevant_keys, {})
    IN  IF loop.returned
        THEN all_languages
        ELSE (loop.langs \cup languages_added) \ languages_removed

\* the loop of the Core and NLG sections
RECURSIVE KeyLoop(_, _, _)
KeyLoop(fingerprint1, fingerprint2, ks) ==
    IF ks = <<>> THEN FALSE
    ELSE IF Get(fingerprint1, Head(ks)) # Get(fingerprint2, Head(ks))
         THEN TRUE
         ELSE KeyLoop(fingerprint1, fingerprint2, Tail(ks))

\* a set of languages for the NLU section, a boolean for the others
did_section_fingerprint_change(fingerprint1, fingerprint2, sec) ==
    IF sec.name = "NLU model"
    THEN NluSectionChange(fingerprint1, fingerprint2, sec.relevant_keys)
    ELSE KeyLoop(fingerprint1, fingerprint2, sec.relevant_keys)

----------------------------------------------------------------------------
(* FingerprintComparisonResult *)

\* the nlu field holds the bool True or a list of languages
Bool(b) == [kind |-> "bool", val |-> b]
List(l) == [kind |-> "list", val |-> l]

\* Python truth value of such a field
Truthy(x) == IF x.kind = "bool" THEN x.val ELSE Len(x.val) > 0

FingerprintComparisonResult(nlu, core, nlg, force_training) ==
    [nlu |-> nlu, core |-> core, nlg |-> nlg,
     force_training |-> force_training]

\* the defaults with core False
DefaultComparisonResult_CoreFalse ==
    FingerprintComparisonResult(Bool(TRUE), FALSE, TRUE, FALSE)

\* FingerprintComparisonResult(): the defaults of __init__
DefaultComparisonResult ==
    FingerprintComparisonResult(Bool(TRUE), TRUE, TRUE, FALSE)

is_training_required(r) ==
    r.nlg \/ Truthy(r.nlu) \/ r.core \/ r.force_training

should_retrain_core(r) == r.force_training \/ r.core

should_retrain_nlg(r) == should_retrain_core(r) \/ r.nlg

\* self.force_training or self.nlu: True when forced, else the nlu field
\* itself (the same list object, empty or not)
should_retrain_nlu(r) == IF r.force_training THEN Bool(TRUE) ELSE r.nlu

----------------------------------------------------------------------------
(* get_model_subdirectories and move_model *)

\* a path of a directory that exists
Dir == "dir"

\* nlu_paths: None for every language of the persisted nlu-config, then the
\* path of every nlu-<lang> directory found
NluPaths(models_fingerprint, dirs) ==
    LET fp_langs ==
            IF FINGERPRINT_CONFIG_NLU_KEY \in DOMAIN models_fingerprint
            THEN Keys(models_fingerprint[FINGERPRINT_CONFIG_NLU_KEY])
            ELSE {}
    IN  [lang \in fp_langs \cup dirs |->
            IF lang \in dirs THEN Dir ELSE None]

get_model_subdirectories(models_fingerprint, has_core, dirs) ==
    LET core_path == IF has_core THEN Dir ELSE None
        nlu_paths == NluPaths(models_fingerprint, dirs)
    IN  [raised |-> core_path = None /\ Cardinality(DOMAIN nlu_paths) = 0,
         core_path |-> core_path,
         nlu_paths |-> nlu_paths]

\* what move_model(source, target) can return: shutil.move of None always
\* raises, which move_model turns into False; a move of a directory that
\* exists succeeds or fails
MoveOutcomes(source) == IF source = None THEN {FALSE} ELSE BOOLEAN

\* the orders list(set) can give
ListsOf(S) ==
    {l \in [1..Cardinality(S) -> S] : \A x \in S : \E i \in DOMAIN l : l[i] = x}

\* lang in the list
InList(lang, l) == \E i \in DOMAIN l : l[i] = lang

----------------------------------------------------------------------------
(* Inputs *)

\* dicts keyed by a set of languages
LangDicts(V) == UNION {[S -> V] : S \in SUBSET Langs}
NonEmptyLangDicts(V) == UNION {[S -> V] : S \in (SUBSET Langs) \ {{}}}

\* The comparison reads hashes only through = and #: the previous model's
\* hashes are all BaseHash and those of the new fingerprint range over Hashes.
BaseHash == "h1"

\* nlu-config is a dict only when there is a language (model_fingerprint)
OldFingerprints ==
    {Fingerprint(BaseHash, BaseHash, nc, BaseHash, BaseHash, m, BaseHash, v) :
        nc \in NonEmptyLangDicts({BaseHash}), m \in LangDicts({BaseHash}),
        v \in Versions}

\* rasa.__version__ of the running program is a compatible version
NewVersions == {v \in Versions : v >= MINIMUM_COMPATIBLE_VERSION}

NewFingerprints ==
    {Fingerprint(c, cc, nc, d, n, m, s, v) :
        c \in Hashes, cc \in Hashes, nc \in NonEmptyLangDicts(Hashes),
        d \in Hashes, n \in Hashes, m \in LangDicts(Hashes), s \in Hashes,
        v \in NewVersions}

NoExc == "none"
NoSection == [name |-> "none", relevant_keys |-> <<>>]

\* the locals of should_retrain before the call has set them
Idle ==
    /\ unpacked = FALSE
    /\ model_outdated = FALSE
    /\ fingerprint_comparison = DefaultComparisonResult
    /\ core_merge_failed = FALSE
    /\ languages_to_train = Bool(TRUE)
    /\ todo = {}
    /\ moves = {}
    /\ exc = NoExc
    /\ section = NoSection
    /\ changed = Bool(FALSE)

----------------------------------------------------------------------------
(* RegexFeaturizer: the values it works on *)

\* bounds of the featurizer's inputs
MaxDeclared == 2
MaxTrains == 2
MaxMatches == 1

\* rasa.nlu.constants, as imported by the featurizer
TEXT_ATTRIBUTE == "text"
RESPONSE_ATTRIBUTE == "response"
TOKENS_NAMES ==
    [a \in {TEXT_ATTRIBUTE, RESPONSE_ATTRIBUTE} |->
        IF a = TEXT_ATTRIBUTE THEN "tokens" ELSE "response_tokens"]
SPARSE_FEATURE_NAMES ==
    [a \in {TEXT_ATTRIBUTE, RESPONSE_ATTRIBUTE} |->
        IF a = TEXT_ATTRIBUTE THEN "text_sparse_features"
                              ELSE "response_sparse_features"]

\* a Python dict without keys
EmptyDict == [k \in {} |-> FALSE]

\* d[k] = v on a Python dict
DictSet(d, k, v) ==
    [x \in DOMAIN d \cup {k} |-> IF x = k THEN v ELSE d[x]]

\* d.get(k, default)
DictGet(d, k, default) == IF k \in DOMAIN d THEN d[k] ELSE default

\* a regex and a lookup element are sequences of characters; names and
\* texts are taken whole
DeclaredRegexes == {<<"\\", "d">>, <<"z">>}

\* an entry of known_patterns: {"name": ..., "pattern": ...}
PatternEntry(name, pattern) == [name |-> name, pattern |-> pattern]

\* the regex features a training data can declare: two of them share a name
DeclaredEntries ==
    { PatternEntry("zip", <<"\\", "d">>),
      PatternEntry("zip", <<"z">>),
      PatternEntry("city", <<"z">>) }

\* the lists of at most n elements of S
ListsUpTo(S, n) == UNION {[1..k -> S] : k \in 0..n}

\* a Token of the tokenizer: the span [offset, end) and its data
Token(offset, end) == [offset |-> offset, end |-> end, data |-> EmptyDict]

\* a coo_matrix: its shape and the coordinates of its cells that hold 1.0
SparseMatrix(rows, cols, cells) ==
    [shape |-> <<rows, cols>>, cells |-> cells]

\* scipy.sparse.coo_matrix(vec) of a dense rows x cols array
coo_matrix(vec, rows, cols) ==
    SparseMatrix(rows, cols,
                 {c \in (0..(rows - 1)) \X (0..(cols - 1)) :
                     vec[c[1]][c[2]] = 1})

\* scipy.sparse.hstack([a, b])
hstack(a, b) ==
    SparseMatrix(a.shape[1], a.shape[2] + b.shape[2],
                 a.cells \cup {<<c[1], c[2] + a.shape[2]>> : c \in b.cells})

\* a Message: its text, what re.finditer finds in the text for each regex
\* (a sequence of match spans [start, end), absent when there is none), and
\* the data set on it (tokens, features)
Message(text, matches, toks) ==
    [text |-> text, matches |-> matches,
     data |-> DictSet(EmptyDict, TOKENS_NAMES[TEXT_ATTRIBUTE], toks)]

\* list(re.finditer(pattern, message.text)) of line 108
finditer(pattern, msg) == DictGet(msg.matches, pattern, <<>>)

\* a TrainingData: regex_features is a reference to its list
TrainingData(regex_features, lookup_tables, training_examples) ==
    [regex_features |-> regex_features, lookup_tables |-> lookup_tables,
     training_examples |-> training_examples]

----------------------------------------------------------------------------
(* RegexFeaturizer._generate_lookup_regex *)

\* the lookup table files on disk: their lines, newline included
LookupFiles ==
    [f \in {"cities.txt"} |-> << <<"a", " ", "\n">>, <<" ", "\n">>, <<".">> >>]

Whitespace == {" ", "\n"}
RegexSpecial == {"."}

RECURSIVE lstrip(_)
\* the line without its leading whitespace
lstrip(line) ==
    IF line # <<>> /\ Head(line) \in Whitespace THEN lstrip(Tail(line))
    ELSE line

RECURSIVE rstrip(_)
\* the line without its trailing whitespace
rstrip(line) ==
    IF line # <<>> /\ line[Len(line)] \in Whitespace
    THEN rstrip(SubSeq(line, 1, Len(line) - 1))
    ELSE line

\* line.strip()
strip(line) == rstrip(lstrip(line))

RECURSIVE re_escape(_)
\* re.escape(e): a backslash before every special character
re_escape(e) ==
    IF e = <<>> THEN <<>>
    ELSE (IF Head(e) \in RegexSpecial THEN <<"\\", Head(e)>> ELSE <<Head(e)>>)
         \o re_escape(Tail(e))

RECURSIVE join(_, _)
\* sep.join(elements)
join(sep, elements) ==
    IF elements = <<>> THEN <<>>
    ELSE IF Len(elements) = 1 THEN elements[1]
    ELSE elements[1] \o sep \o join(sep, Tail(elements))

RECURSIVE ReadElements(_)
\* lines 158-161: the stripped lines of the file that are not empty
ReadElements(lines) ==
    IF lines = <<>> THEN <<>>
    ELSE LET new_element == strip(Head(lines))
         IN (IF new_element # <<>> THEN <<new_element>> ELSE <<>>)
            \o ReadElements(Tail(lines))

\* a lookup table's elements: a list, or the path of a file
ElementsList(l) == [kind |-> "list", val |-> l]
ElementsPath(p) == [kind |-> "path", val |-> p]

\* open(lookup_elements) fails: _generate_lookup_regex raises ValueError
LookupRaises(lookup_table) ==
    /\ lookup_table.elements.kind = "path"
    /\ lookup_table.elements.val \notin DOMAIN LookupFiles

\* _generate_lookup_regex(lookup_table), when it returns
_generate_lookup_regex(lookup_table) ==
    LET lookup_elements == lookup_table.elements
        elements_to_regex ==
            IF lookup_elements.kind = "list" THEN lookup_elements.val
            ELSE ReadElements(LookupFiles[lookup_elements.val])
        elements_sanitized ==
            [i \in DOMAIN elements_to_regex |-> re_escape(elements_to_regex[i])]
    IN <<"(", "?", "i", ")", "(", "\\", "b">>
       \o join(<<"\\", "b", "|", "\\", "b">>, elements_sanitized)
       \o <<"\\", "b", ")">>

----------------------------------------------------------------------------
(* RegexFeaturizer._features_for_patterns *)

RECURSIVE MatchLoop(_, _, _)
\* lines 120-123: whether one of the matches sets the mark and the cell
MatchLoop(t, matches, hit) ==
    IF matches = <<>> THEN hit
    ELSE LET match == Head(matches)
         IN MatchLoop(t, Tail(matches),
                      hit \/ (t.offset < match.end /\ t.end > match.start))

RECURSIVE TokenLoop(_, _, _, _, _, _)
\* lines 111-125, from token_index on; acc holds the tokens and vec
TokenLoop(self_return_sequence, pattern_index, pattern, matches, token_index, acc) ==
    IF token_index >= Len(acc.tokens) THEN acc
    ELSE LET t == acc.tokens[token_index + 1]
             patterns == DictGet(t.data, "pattern", EmptyDict)
             seq_index == IF self_return_sequence THEN token_index ELSE 0
             hit == MatchLoop(t, matches, FALSE)
             marked == IF hit
                       THEN DictSet(DictSet(patterns, pattern.name, FALSE),
                                    pattern.name, TRUE)
                       ELSE DictSet(patterns, pattern.name, FALSE)
             set == [t EXCEPT !.data = DictSet(t.data, "pattern", marked)]
         IN TokenLoop(self_return_sequence, pattern_index, pattern, matches,
                      token_index + 1,
                      [tokens |-> [acc.tokens EXCEPT ![token_index + 1] = set],
                       vec |-> IF hit
                               THEN [acc.vec EXCEPT
                                        ![seq_index][pattern_index] = 1]
                               ELSE acc.vec])

RECURSIVE PatternLoop(_, _, _, _, _)
\* lines 107-125, from pattern_index on
PatternLoop(self_known_patterns, self_return_sequence, msg, pattern_index, acc) ==
    IF pattern_index >= Len(self_known_patterns) THEN acc
    ELSE LET pattern == self_known_patterns[pattern_index + 1]
             matches == finditer(pattern.pattern, msg)
         IN PatternLoop(self_known_patterns, self_return_sequence, msg,
                        pattern_index + 1,
                        TokenLoop(self_return_sequence, pattern_index,
                                  pattern, matches, 0, acc))

\* _features_for_patterns(message, attribute): the matrix it returns and the
\* tokens as it leaves them
_features_for_patterns(self_known_patterns, self_return_sequence, msg, attribute) ==
    LET toks == DictGet(msg.data, TOKENS_NAMES[attribute], <<>>)
        seq_length == IF self_return_sequence THEN Len(toks) ELSE 1
        cols == Len(self_known_patterns)
        zeros == [i \in 0..(seq_length - 1) |-> [j \in 0..(cols - 1) |-> 0]]
        done == PatternLoop(self_known_patterns, self_return_sequence, msg, 0,
                            [tokens |-> toks, vec |-> zeros])
    IN [extras |-> coo_matrix(done.vec, seq_length, cols),
        tokens |-> done.tokens]

\* Featurizer._combine_with_existing_sparse_features
_combine_with_existing_sparse_features(msg, additional_features, feature_name) ==
    IF feature_name \in DOMAIN msg.data
    THEN hstack(msg.data[feature_name], additional_features)
    ELSE additional_features

\* _text_features_with_regex(message, attribute): the message as it leaves it
_text_features_with_regex(self_known_patterns, self_return_sequence, msg, attribute) ==
    IF self_known_patterns # <<>>
    THEN LET r == _features_for_patterns(self_known_patterns,
                                         self_return_sequence, msg, attribute)
             marked ==
                 IF TOKENS_NAMES[attribute] \in DOMAIN msg.data
                 THEN [msg EXCEPT !.data[TOKENS_NAMES[attribute]] = r.tokens]
                 ELSE msg
             feats == _combine_with_existing_sparse_features(
                          marked, r.extras, SPARSE_FEATURE_NAMES[attribute])
         IN [marked EXCEPT
                !.data = DictSet(marked.data, SPARSE_FEATURE_NAMES[attribute],
                                 feats)]
    ELSE msg

----------------------------------------------------------------------------
(* RegexFeaturizer: the persisted file *)

RECURSIVE json_escape(_)
\* a string as JSON writes it: a backslash before every backslash and quote
json_escape(str) ==
    IF str = <<>> THEN <<>>
    ELSE (IF Head(str) \in {"\\", "\""} THEN <<"\\", Head(str)>>
          ELSE <<Head(str)>>)
         \o json_escape(Tail(str))

RECURSIVE json_unescape(_)
\* the string a JSON string stands for
json_unescape(str) ==
    IF str = <<>> THEN <<>>
    ELSE IF Head(str) = "\\" /\ Len(str) >= 2
         THEN <<str[2]>> \o json_unescape(Tail(Tail(str)))
         ELSE <<Head(str)>> \o json_unescape(Tail(str))

\* the value of key k in a JSON object: a sequence of <<key, value>> members
JsonMember(object, k) ==
    object[CHOOSE i \in DOMAIN object : object[i][1] = k][2]

\* utils.write_json_to_file(regex_file, obj): the array of objects written
write_json_to_file(obj) ==
    [i \in DOMAIN obj |->
        << <<"name", obj[i].name>>,
           <<"pattern", json_escape(obj[i].pattern)>> >>]

\* rasa.utils.io.read_json_file(regex_file): the list of dicts read
read_json_file(content) ==
    [i \in DOMAIN content |->
        PatternEntry(JsonMember(content[i], "name"),
                     json_unescape(JsonMember(content[i], "pattern")))]

----------------------------------------------------------------------------
(* RegexFeaturizer: construction, train, process, persist, load *)

\* the list objects: the lists the two constructors create, the training
\* data's regex_features, and the list read_json_file returns
Refs == {"init", "regex_features", "init_loaded", "json"}

\* the featurizer that is trained and persisted, and the one load returns
SELF == "self"
LOADED == "loaded"

\* line 52: the list self.known_patterns refers to after construction
RegexFeaturizer_Fresh(h, known, fresh) == fresh
RegexFeaturizer(h, known, fresh) ==
    IF known # None /\ h[known] # <<>> THEN known ELSE fresh

\* defaults of lines 36-41 under the component's configuration
ReturnSequenceOf(component_config) ==
    DictGet(component_config, "return_sequence", FALSE)

RECURSIVE _add_lookup_table_regexes(_, _)
\* _add_lookup_table_regexes(lookup_tables) on the list self.known_patterns
\* refers to: the list as the loop leaves it, and whether it raised
_add_lookup_table_regexes(list, lookup_tables) ==
    IF lookup_tables = <<>> THEN [list |-> list, raised |-> FALSE]
    ELSE LET table == Head(lookup_tables)
         IN IF LookupRaises(table) THEN [list |-> list, raised |-> TRUE]
            ELSE _add_lookup_table_regexes(
                     Append(list,
                            PatternEntry(table.name,
                                         _generate_lookup_regex(table))),
                     Tail(lookup_tables))

\* lines 65-67 on one training example
TrainExample(self_known_patterns, self_return_sequence, example) ==
    _text_features_with_regex(
        self_known_patterns, self_return_sequence,
        _text_features_with_regex(self_known_patterns, self_return_sequence,
                                  example, TEXT_ATTRIBUTE),
        RESPONSE_ATTRIBUTE)

\* no message has been processed
NoMessage == [text |-> "", matches |-> EmptyDict, data |-> EmptyDict]

\* the file name the pipeline hands to persist
ComponentFileName == <<"component_1_RegexFeaturizer">>

\* the lookup tables of a training data
LookupTable(name, elements) == [name |-> name, elements |-> elements]
LookupTableLists ==
    { <<>>,
      <<LookupTable("city", ElementsList(<< <<"a">> >>))>>,
      <<LookupTable("city", ElementsPath("missing.txt"))>>,
      <<LookupTable("city", ElementsList(<< <<"a">>, <<".">> >>)),
        LookupTable("zip", ElementsPath("cities.txt"))>> }

\* match spans and token spans over a text of four characters
Offsets == 0..4
Span(start, end) == [start |-> start, end |-> end]
Spans == {sp \in [start : Offsets, end : Offsets] : sp.start <= sp.end}

\* the messages a trained or loaded featurizer is given in the life cycle
LifecycleMessages ==
    { Message("zip 12", DictSet(EmptyDict, <<"\\", "d">>, <<Span(4, 6)>>),
              <<Token(0, 3), Token(4, 6)>>),
      Message("in a", DictSet(EmptyDict, _generate_lookup_regex(
                                  LookupTable("city", ElementsList(<< <<"a">> >>))),
                              <<Span(3, 4)>>),
              <<Token(0, 2), Token(3, 4)>>) }

\* the training examples of a training data
TrainingExamples ==
    << Message("zip 12", DictSet(EmptyDict, <<"\\", "d">>, <<Span(4, 6)>>),
               <<Token(0, 3), Token(4, 6)>>) >>

\* the retraining decision is not running
NoRetraining ==
    /\ old_model = FALSE
    /\ new_fingerprint = EmptyFingerprint
    /\ last_fingerprint = EmptyFingerprint
    /\ core_dir = FALSE
    /\ nlu_dirs = {}
    /\ Idle

\* no featurizer has been constructed
NoFeaturizer ==
    /\ heap = [r \in Refs |-> <<>>]
    /\ known_patterns = EmptyDict
    /\ return_sequence = EmptyDict
    /\ training_data = TrainingData(None, <<>>, <<>>)
    /\ declared = <<>>
    /\ trains = 0
    /\ files = EmptyDict
    /\ meta = EmptyDict
    /\ at_persist = <<>>
    /\ message = NoMessage
    /\ rexc = NoExc

\* the pipeline has constructed RegexFeaturizer(component_config) and holds
\* the training data
InitRegex ==
    /\ pc = "regex"
    /\ NoRetraining
    /\ declared \in ListsUpTo(DeclaredEntries, MaxDeclared)
    /\ heap = [r \in Refs |-> IF r = "regex_features" THEN declared ELSE <<>>]
    /\ \E lookup_tables \in LookupTableLists :
          training_data = TrainingData("regex_features", lookup_tables,
                                       TrainingExamples)
    /\ known_patterns = DictSet(EmptyDict, SELF,
                                RegexFeaturizer(heap, None, "init"))
    /\ \E b \in BOOLEAN :
          return_sequence =
              DictSet(EmptyDict, SELF,
                      ReturnSequenceOf(DictSet(EmptyDict, "return_sequence", b)))
    /\ trains = 0
    /\ files = EmptyDict
    /\ meta = EmptyDict
    /\ at_persist = <<>>
    /\ message = NoMessage
    /\ rexc = NoExc

\* train(training_data, config)
Train ==
    /\ pc = "regex"
    /\ rexc = NoExc
    /\ trains < MaxTrains
    /\ trains' = trains + 1
    /\ LET ref == training_data.regex_features
           r == _add_lookup_table_regexes(heap[ref],
                                          training_data.lookup_tables)
       IN /\ known_patterns' = [known_patterns EXCEPT ![SELF] = ref]
          /\ heap' = [heap EXCEPT ![ref] = r.list]
          /\ IF r.raised
             THEN /\ rexc' = "ValueError"
                  /\ UNCHANGED training_data
             ELSE /\ rexc' = NoExc
                  /\ training_data' =
                        [training_data EXCEPT !.training_examples =
                            [i \in DOMAIN @ |->
                                TrainExample(r.list, return_sequence[SELF],
                                             @[i])]]
    /\ UNCHANGED <<return_sequence, declared, files, meta, at_persist,
                   message>>
    /\ UNCHANGED mvars

\* process(message) of the featurizer f
Process(f, m) ==
    /\ pc = "regex"
    /\ rexc = NoExc
    /\ f \in DOMAIN known_patterns
    /\ UNCHANGED <<heap, known_patterns, return_sequence, training_data,
                   declared, trains, files, meta, at_persist, rexc>>
    /\ UNCHANGED mvars
    /\ message' = _text_features_with_regex(heap[known_patterns[f]],
                                            return_sequence[f], m,
                                            TEXT_ATTRIBUTE)

\* persist(file_name, model_dir)
Persist ==
    /\ pc = "regex"
    /\ rexc = NoExc
    /\ LET file_name == ComponentFileName \o <<".pkl">>
       IN /\ files' = DictSet(files, file_name,
                              write_json_to_file(heap[known_patterns[SELF]]))
          /\ meta' = DictSet(EmptyDict, "file", file_name)
    /\ at_persist' = heap[known_patterns[SELF]]
    /\ UNCHANGED <<heap, known_patterns, return_sequence, training_data,
                   declared, trains, message, rexc>>
    /\ UNCHANGED mvars

\* load(meta, model_dir)
Load ==
    /\ pc = "regex"
    /\ rexc = NoExc
    /\ IF "file" \notin DOMAIN meta
       THEN /\ rexc' = "TypeError"
            /\ UNCHANGED <<heap, known_patterns, return_sequence>>
       ELSE LET regex_file == meta["file"]
                exists == regex_file \in DOMAIN files
                h == IF exists
                     THEN [heap EXCEPT
                              !["json"] = read_json_file(files[regex_file]),
                              !["init_loaded"] = <<>>]
                     ELSE [heap EXCEPT !["init_loaded"] = <<>>]
            IN /\ heap' = h
               /\ known_patterns' =
                     DictSet(known_patterns, LOADED,
                             RegexFeaturizer(h, IF exists THEN "json" ELSE None,
                                             "init_loaded"))
               /\ return_sequence' =
                     DictSet(return_sequence, LOADED, ReturnSequenceOf(meta))
               /\ rexc' = NoExc
    /\ UNCHANGED <<training_data, declared, trains, files, meta, at_persist,
                   message>>
    /\ UNCHANGED mvars

NextRegex ==
    \/ Train
    \/ \E f \in {SELF, LOADED} : \E m \in LifecycleMessages : Process(f, m)
    \/ Persist
    \/ Load

SpecRegex == InitRegex /\ [][NextRegex]_vars

----------------------------------------------------------------------------
(* process on its own *)

\* the token sequences of a text of four characters
Tokenizations ==
    { <<>>,
      <<Token(0, 4)>>,
      <<Token(0, 2), Token(2, 4)>>,
      <<Token(0, 1), Token(2, 4)>> }

\* what re.finditer can return: matches in text order that do not overlap
MatchLists ==
    {l \in ListsUpTo(Spans, MaxMatches) :
        \A i \in DOMAIN l : i > 1 => l[i - 1].end <= l[i].start}

FeatureMessages ==
    {Message("abcd", matches, toks) :
        matches \in [DeclaredRegexes -> MatchLists], toks \in Tokenizations}

\* a featurizer constructed with known_patterns, as load does, is handed a
\* message
InitFeatures ==
    /\ pc = "features"
    /\ NoRetraining
    /\ declared = <<>>
    /\ \E known \in ListsUpTo(DeclaredEntries, MaxDeclared) :
          heap = [r \in Refs |-> IF r = "json" THEN known ELSE <<>>]
    /\ known_patterns = DictSet(EmptyDict, SELF,
                                RegexFeaturizer(heap, "json", "init"))
    /\ \E b \in BOOLEAN :
          return_sequence =
              DictSet(EmptyDict, SELF,
                      ReturnSequenceOf(DictSet(EmptyDict, "return_sequence", b)))
    /\ training_data = TrainingData(None, <<>>, <<>>)
    /\ trains = 0
    /\ files = EmptyDict
    /\ meta = EmptyDict
    /\ at_persist = <<>>
    /\ message \in FeatureMessages
    /\ rexc = NoExc

\* process(message) on the message handed over
ProcessMessage ==
    /\ pc = "features"
    /\ pc' = "features_done"
    /\ message' = _text_features_with_regex(heap[known_patterns[SELF]],
                                            return_sequence[SELF], message,
                                            TEXT_ATTRIBUTE)
    /\ UNCHANGED <<old_model, new_fingerprint, last_fingerprint, core_dir,
                   nlu_dirs, unpacked, model_outdated, fingerprint_comparison,
                   core_merge_failed, languages_to_train, todo, moves, exc,
                   section, changed>>
    /\ UNCHANGED <<heap, known_patterns, return_sequence, training_data,
                   declared, trains, files, meta, at_persist, rexc>>

NextFeatures == ProcessMessage

SpecFeatures == InitFeatures /\ [][NextFeatures]_vars

----------------------------------------------------------------------------
(* did_section_fingerprint_change on its own *)

InitCmp ==
    /\ pc = "cmp"
    /\ old_model = TRUE
    /\ last_fingerprint \in OldFingerprints
    /\ new_fingerprint \in NewFingerprints
    /\ core_dir = TRUE
    /\ nlu_dirs = {}
    /\ Idle
    /\ NoFeaturizer

\* one call did_section_fingerprint_change(fingerprint1, fingerprint2, sec)
Compare(sec) ==
    /\ pc = "cmp"
    /\ pc' = "cmp_done"
    /\ section' = sec
    /\ changed' =
        LET r == did_section_fingerprint_change(last_fingerprint,
                                                new_fingerprint, sec)
        IN  IF sec.name = "NLU model" THEN [kind |-> "langs", val |-> r]
            ELSE Bool(r)
    /\ UNCHANGED rvars
    /\ UNCHANGED <<old_model, new_fingerprint, last_fingerprint, core_dir,
                   nlu_dirs, unpacked, model_outdated, fingerprint_comparison,
                   core_merge_failed, languages_to_train, todo, moves, exc>>

NextCmp == \E sec \in Sections : Compare(sec)

SpecCmp == InitCmp /\ [][NextCmp]_vars

----------------------------------------------------------------------------
(* should_retrain *)

\* The new fingerprints of the calls of should_retrain: of the keys only the
\* Core section reads, stories is the one that varies; a language's data
\* (messages) varies while its pipeline (nlu-config) keeps its hash; and the
\* version is that of the running program.
CalledWithFingerprints ==
    {fp \in NewFingerprints :
        /\ fp[FINGERPRINT_CONFIG_CORE_KEY] = BaseHash
        /\ fp[FINGERPRINT_DOMAIN_WITHOUT_NLG_KEY] = BaseHash
        /\ \A lang \in DOMAIN fp[FINGERPRINT_CONFIG_NLU_KEY] :
              fp[FINGERPRINT_CONFIG_NLU_KEY][lang] = BaseHash
        /\ fp[FINGERPRINT_RASA_VERSION_KEY] = MaxVersion}

\* should_retrain(new_fingerprint, old_model, train_path) is entered; line 493
\* has built the default result. The old model, when there is one, is an
\* archive with or without fingerprint.json, core/ and nlu-<lang>/.
Init ==
    /\ pc = "start"
    /\ new_fingerprint \in CalledWithFingerprints
    /\ old_model \in BOOLEAN
    /\ IF old_model
       THEN /\ last_fingerprint \in OldFingerprints \cup {EmptyFingerprint}
            /\ core_dir \in BOOLEAN
            /\ nlu_dirs \in SUBSET Langs
       ELSE /\ last_fingerprint = EmptyFingerprint
            /\ core_dir = FALSE
            /\ nlu_dirs = {}
    /\ Idle
    /\ NoFeaturizer

\* old_core, old_nlu of line 500
old_core == get_model_subdirectories(last_fingerprint, core_dir,
                                     nlu_dirs).core_path
old_nlu == get_model_subdirectories(last_fingerprint, core_dir,
                                    nlu_dirs).nlu_paths

\* lines 495-496: no previous model, the default result is returned
NoOldModel ==
    /\ pc = "start"
    /\ ~old_model
    /\ pc' = "done"
    /\ UNCHANGED rvars
    /\ UNCHANGED <<old_model, new_fingerprint, last_fingerprint, core_dir,
                   nlu_dirs, unpacked, model_outdated, fingerprint_comparison,
                   core_merge_failed, languages_to_train, todo, moves, exc,
                   section, changed>>

\* line 498: unpack_model extracts the archive or re-raises the failure
Unpack ==
    /\ pc = "start"
    /\ old_model
    /\ unpacked' = TRUE
    /\ \E extracted \in BOOLEAN :
          IF extracted
          THEN pc' = "unpacked" /\ exc' = exc
          ELSE pc' = "raised" /\ exc' = "TarError"
    /\ UNCHANGED rvars
    /\ UNCHANGED <<old_model, new_fingerprint, last_fingerprint, core_dir,
                   nlu_dirs, model_outdated, fingerprint_comparison,
                   core_merge_failed, languages_to_train, todo, moves,
                   section, changed>>

\* lines 499-517: load the fingerprint, find the directories, compare the
\* versions and the three sections
LoadAndCompare ==
    /\ pc = "unpacked"
    /\ IF get_model_subdirectories(last_fingerprint, core_dir,
                                   nlu_dirs).raised
       THEN /\ pc' = "raised"
            /\ exc' = "ModelNotFound"
            /\ UNCHANGED <<model_outdated, fingerprint_comparison>>
       ELSE IF FINGERPRINT_RASA_VERSION_KEY \notin DOMAIN last_fingerprint
       THEN \* version.parse(last_fingerprint.get("version")) of None
            /\ pc' = "raised"
            /\ exc' = "TypeError"
            /\ UNCHANGED <<model_outdated, fingerprint_comparison>>
       ELSE /\ pc' = "core"
            /\ exc' = exc
            /\ model_outdated' =
                  (last_fingerprint[FINGERPRINT_RASA_VERSION_KEY]
                      < MINIMUM_COMPATIBLE_VERSION)
            /\ \E nlu \in ListsOf(did_section_fingerprint_change(
                              last_fingerprint, new_fingerprint, SECTION_NLU)) :
                  fingerprint_comparison' =
                      FingerprintComparisonResult(
                          List(nlu),
                          did_section_fingerprint_change(
                              last_fingerprint, new_fingerprint, SECTION_CORE),
                          did_section_fingerprint_change(
                              last_fingerprint, new_fingerprint, SECTION_NLG),
                          model_outdated')
    /\ UNCHANGED rvars
    /\ UNCHANGED <<old_model, new_fingerprint, last_fingerprint, core_dir,
                   nlu_dirs, unpacked, core_merge_failed, languages_to_train,
                   todo, moves, section, changed>>

\* AfterCoreMove without the assignment of core_merge_failed to core
AfterCoreMove_CoreKept(r, merge_failed) ==
    IF ~should_retrain_nlg(r) /\ merge_failed
    THEN [r EXCEPT !.nlg = TRUE]
    ELSE r

\* fingerprint_comparison after lines 519-527, given the outcome of the move
AfterCoreMove(r, merge_failed) ==
    LET moved == IF ~should_retrain_core(r)
                 THEN [r EXCEPT !.core = merge_failed]
                 ELSE r
    IN  IF ~should_retrain_nlg(moved) /\ merge_failed
        THEN [moved EXCEPT !.nlg = TRUE]
        ELSE moved

\* lines 519-533: move the Core model when Core is unchanged, then start the
\* loop over the languages of the old model
MoveCore ==
    /\ pc = "core"
    /\ IF ~should_retrain_core(fingerprint_comparison)
       THEN \E ok \in MoveOutcomes(old_core) :
               /\ moves' = moves \cup {[source |-> "core", ok |-> ok]}
               /\ core_merge_failed' = ~ok
       ELSE /\ moves' = moves
            /\ core_merge_failed' = FALSE
    /\ fingerprint_comparison' =
          AfterCoreMove(fingerprint_comparison, core_merge_failed')
    /\ languages_to_train' = should_retrain_nlu(fingerprint_comparison')
    /\ todo' = Keys(old_nlu)
    /\ pc' = "nlu"
    /\ UNCHANGED rvars
    /\ UNCHANGED <<old_model, new_fingerprint, last_fingerprint, core_dir,
                   nlu_dirs, unpacked, model_outdated, exc, section, changed>>

\* lines 534-540, one iteration: the move of a language the new nlu-config
\* still has; a failed move appends to languages_to_train, which is the
\* bool True when training is forced
MoveNlu(lang) ==
    /\ pc = "nlu"
    /\ lang \in todo
    /\ todo' = todo \ {lang}
    /\ IF lang \in Keys(Get(new_fingerprint, FINGERPRINT_CONFIG_NLU_KEY))
       THEN \E ok \in MoveOutcomes(old_nlu[lang]) :
               /\ moves' = moves \cup {[source |-> lang, ok |-> ok]}
               /\ IF ok
                  THEN UNCHANGED <<languages_to_train, pc, exc>>
                  ELSE IF languages_to_train.kind = "list"
                  THEN /\ languages_to_train' =
                             List(Append(languages_to_train.val, lang))
                       /\ UNCHANGED <<pc, exc>>
                  ELSE \* True.append(lang)
                       /\ pc' = "raised"
                       /\ exc' = "AttributeError"
                       /\ UNCHANGED languages_to_train
       ELSE UNCHANGED <<moves, languages_to_train, pc, exc>>
    /\ UNCHANGED rvars
    /\ UNCHANGED <<old_model, new_fingerprint, last_fingerprint, core_dir,
                   nlu_dirs, unpacked, model_outdated, fingerprint_comparison,
                   core_merge_failed, section, changed>>

\* lines 541-544: the loop is over, the result is returned
Return ==
    /\ pc = "nlu"
    /\ todo = {}
    /\ fingerprint_comparison' =
          [fingerprint_comparison EXCEPT !.nlu = languages_to_train]
    /\ pc' = "done"
    /\ UNCHANGED rvars
    /\ UNCHANGED <<old_model, new_fingerprint, last_fingerprint, core_dir,
                   nlu_dirs, unpacked, model_outdated, core_merge_failed,
                   languages_to_train, todo, moves, exc, section, changed>>

Next ==
    \/ NoOldModel
    \/ Unpack
    \/ LoadAndCompare
    \/ MoveCore
    \/ \E lang \in Langs : MoveNlu(lang)
    \/ Return

Spec == Init /\ [][Next]_vars

----------------------------------------------------------------------------
(* Properties of did_section_fingerprint_change (SpecCmp) *)

\* every relevant key of the section has the same value in both fingerprints
RelevantKeysEqual(fingerprint1, fingerprint2, sec) ==
    \A i \in DOMAIN sec.relevant_keys :
        fingerprint1[sec.relevant_keys[i]] = fingerprint2[sec.relevant_keys[i]]

\* a call for the NLU section has returned
NluCompared == pc = "cmp_done" /\ section = SECTION_NLU

\* a relevant non-dict key of the NLU section differs
GlobalKeyDiffers ==
    \E k \in {FINGERPRINT_CONFIG_KEY, FINGERPRINT_RASA_VERSION_KEY} :
        last_fingerprint[k] # new_fingerprint[k]

C2_RemovedNeverRetrained ==
    NluCompared
    => \A lang \in LanguagesIn(last_fingerprint)
                      \ LanguagesIn(new_fingerprint) :
          lang \notin changed.val

C4_DifferingSubValueRetrained ==
    NluCompared
    => \A lang \in LanguagesIn(last_fingerprint)
                      \cap LanguagesIn(new_fingerprint) :
          (\E k \in DictKeys :
              Get(last_fingerprint[k], lang) # Get(new_fingerprint[k], lang))
          => lang \in changed.val

----------------------------------------------------------------------------
(* Properties of should_retrain (Spec) *)

\* the call has returned its result
Returned == pc = "done"

\* move_model was called for this source with this outcome
Moved(source, ok) == [source |-> source, ok |-> ok] \in moves

\* the language is listed in the nlu field of the result
InNluResult(lang) ==
    /\ fingerprint_comparison.nlu.kind = "list"
    /\ InList(lang, fingerprint_comparison.nlu.val)

\* C5: when the version of the previous model is below the minimum compatible
\* version, should_retrain returns, whatever the outcome of its moves, a
\* result for which Core, NLG and NLU are all to be retrained.
C5_OutdatedForcesAll ==
    (pc \in {"done", "raised"} /\ model_outdated)
    => /\ Returned
       /\ should_retrain_core(fingerprint_comparison)
       /\ should_retrain_nlg(fingerprint_comparison)
       /\ Truthy(should_retrain_nlu(fingerprint_comparison))

\* C6: when the comparison finds Core unchanged and training is not forced,
\* the old Core model is moved; a failed move makes the result ask for Core
\* and NLG retraining, a successful one leaves Core not to be retrained.
C6_CoreMoveDecides ==
    (Returned /\ old_model /\ ~model_outdated
        /\ ~did_section_fingerprint_change(last_fingerprint, new_fingerprint,
                                           SECTION_CORE))
    => /\ \E ok \in BOOLEAN : Moved("core", ok)
       /\ Moved("core", FALSE)
            => /\ should_retrain_core(fingerprint_comparison)
               /\ should_retrain_nlg(fingerprint_comparison)
       /\ Moved("core", TRUE)
            => ~should_retrain_core(fingerprint_comparison)

\* C6 witness: Core and NLG unchanged, the move of the Core model failed and
\* the returned result asks for NLG retraining
C6_Witness ==
    /\ Returned
    /\ Moved("core", FALSE)
    /\ ~did_section_fingerprint_change(last_fingerprint, new_fingerprint,
                                       SECTION_NLG)
    /\ should_retrain_nlg(fingerprint_comparison)

\* C7: when the move of a language of the old model that the new nlu-config
\* still has fails, no exception leaves should_retrain and the language is in
\* the NLU retrain list of the returned result.
C7_FailedMoveRetrained ==
    \A lang \in Langs :
        Moved(lang, FALSE)
        => /\ exc = NoExc
           /\ Returned => InNluResult(lang)

\* C8: for a language of the old model that is no key of the new nlu-config
\* no move is attempted, and the language is not in the NLU retrain list of
\* the returned result.
C8_DroppedLanguageLeftOut ==
    \A lang \in Keys(old_nlu) \ Keys(new_fingerprint[FINGERPRINT_CONFIG_NLU_KEY]) :
        /\ \A ok \in BOOLEAN : ~Moved(lang, ok)
        /\ Returned => ~InNluResult(lang)

\* C9: without a previous model should_retrain returns a result for which
\* Core, NLU and NLG are to be retrained and training is required, and it
\* neither unpacks nor moves anything.
C9_NoOldModelRetrainsAll ==
    (Returned /\ ~old_model)
    => /\ should_retrain_core(fingerprint_comparison)
       /\ Truthy(should_retrain_nlu(fingerprint_comparison))
       /\ should_retrain_nlg(fingerprint_comparison)
       /\ is_training_required(fingerprint_comparison)
       /\ ~unpacked
       /\ moves = {}

\* C9 witness: the call without a previous model has returned
C9_Witness ==
    /\ Returned
    /\ ~old_model
    /\ is_training_required(fingerprint_comparison)

\* C10: get_model_subdirectories raises ModelNotFound whenever the unpacked
\* model has neither core/ nor any nlu-<lang>/, whatever its fingerprint
\* lists under nlu-config.
C10_NoDirectoriesNotFound ==
    (unpacked /\ pc \in {"core", "nlu", "done", "raised"}
        /\ exc # "TarError" /\ ~core_dir /\ nlu_dirs = {})
    => exc = "ModelNotFound"

\* C14: the nlu field of the result should_retrain returns lists no language
\* more than once, whatever the fingerprints and the outcomes of the moves.
C14_NluResultHasNoDuplicates ==
    (Returned /\ fingerprint_comparison.nlu.kind = "list")
    => \A i \in DOMAIN fingerprint_comparison.nlu.val :
          \A j \in DOMAIN fingerprint_comparison.nlu.val :
             fingerprint_comparison.nlu.val[i] = fingerprint_comparison.nlu.val[j]
                => i = j


----------------------------------------------------------------------------
(* Properties of the RegexFeaturizer life cycle (SpecRegex) *)

\* one entry per lookup table of the training data, in the tables' order
OneEntryPerTable ==
    [i \in DOMAIN training_data.lookup_tables |->
        PatternEntry(training_data.lookup_tables[i].name,
                     _generate_lookup_regex(training_data.lookup_tables[i]))]

\* C11: after any number of train calls with the same training data,
\* known_patterns is the list a single train produces -- the declared regex
\* features followed by one entry per lookup table -- and the training data's
\* own regex feature list is still the list it declared.
C11_TrainIdempotent ==
    (pc = "regex" /\ trains >= 1 /\ rexc = NoExc)
    => /\ heap[known_patterns[SELF]] = declared \o OneEntryPerTable
       /\ heap[training_data.regex_features] = declared


\* the list known_patterns of the featurizer f refers to
KnownPatternsOf(f) == heap[known_patterns[f]]

\* C12: load, given the metadata persist returned, constructs a featurizer
\* whose known_patterns is the list persist wrote, entry for entry and in the
\* same order; and a process call changes the known_patterns of no featurizer
\* and gives the message one feature column per known pattern.
C12_LoadRestoresKnownPatterns ==
    [][ /\ (Load /\ rexc' = NoExc) =>
              heap'[known_patterns'[LOADED]] = at_persist
        /\ \A f \in DOMAIN known_patterns :
              \A m \in LifecycleMessages :
                 Process(f, m) =>
                    /\ \A g \in DOMAIN known_patterns :
                          heap'[known_patterns'[g]] = KnownPatternsOf(g)
                    /\ KnownPatternsOf(f) # <<>> =>
                          message'.data[SPARSE_FEATURE_NAMES[TEXT_ATTRIBUTE]].shape[2]
                             = Len(KnownPatternsOf(f)) ]_vars

\* a trained featurizer with two different entries has been persisted and
\* loaded, the loaded one holds the persisted list, and a message has been
\* processed
C12_Witness ==
    /\ pc = "regex"
    /\ trains >= 1
    /\ LOADED \in DOMAIN known_patterns
    /\ Len(at_persist) >= 2
    /\ at_persist[1] # at_persist[2]
    /\ KnownPatternsOf(LOADED) = at_persist
    /\ KnownPatternsOf(SELF) = at_persist
    /\ SPARSE_FEATURE_NAMES[TEXT_ATTRIBUTE] \in DOMAIN message.data


----------------------------------------------------------------------------
(* Properties of the per-message feature computation (SpecFeatures) *)

\* process has returned from a featurizer that knows a pattern
Processed == pc = "features_done" /\ KnownPatternsOf(SELF) # <<>>

\* the tokens of the processed message
TokensOf == message.data[TOKENS_NAMES[TEXT_ATTRIBUTE]]

\* the token's span [offset, end) overlaps the span of a match of the pattern
Overlaps(t, pattern) ==
    \E i \in DOMAIN finditer(pattern.pattern, message) :
        LET match == finditer(pattern.pattern, message)[i]
        IN t.offset < match.end /\ match.start < t.end

\* the cell of the pattern at index j (from 1) is set in the row of the token
\* at index i (from 1), or in the one row of the aggregate vector
CellSet(i, j) ==
    (IF return_sequence[SELF] THEN <<i - 1, j - 1>> ELSE <<0, j - 1>>)
        \in message.data[SPARSE_FEATURE_NAMES[TEXT_ATTRIBUTE]].cells

\* C13: after the feature computation, for every known pattern and every
\* token, the token's mark for the pattern is true exactly when the token's
\* span overlaps a match of the pattern, and the pattern's cell is set in the
\* token's row exactly then (in the aggregate vector: exactly when some token
\* overlaps a match).
C13_MarkedExactlyOnOverlap ==
    Processed =>
       \A j \in DOMAIN KnownPatternsOf(SELF) :
          \A i \in DOMAIN TokensOf :
             LET pattern == KnownPatternsOf(SELF)[j]
                 t == TokensOf[i]
             IN /\ t.data["pattern"][pattern.name] = Overlaps(t, pattern)
                /\ CellSet(i, j) =
                      IF return_sequence[SELF] THEN Overlaps(t, pattern)
                      ELSE \E i2 \in DOMAIN TokensOf :
                              Overlaps(TokensOf[i2], pattern)

=============================================================================
